---- MODULE Spec2Model ----
(***************************************************************************)
(* Genesis Browser: the name-resolution cache and strategy selector        *)
(* (genesis-dns/src/lib.rs, GenesisDnsResolver).                           *)
(*                                                                         *)
(* Strings the code inspects character by character (domains, address      *)
(* strings) are sequences of one-character strings.  Option<T> is the      *)
(* empty sequence (None) or a one-element sequence (Some).  u64 values     *)
(* are integers modulo 2^WordBits; the width is scaled down from 64 so     *)
(* that sums stay inside the checker's integers, the arithmetic is         *)
(* otherwise that of the code.                                             *)
(***************************************************************************)
EXTENDS Integers, Sequences, FiniteSets, TLC

\* ------------------------------------------------------------------ bounds
\* Width of the machine word standing for u64.
WordBits == 13

U64Modulus == 2 ^ WordBits

U64Max == U64Modulus - 1

\* Readings the wall clock can give (seconds since the epoch).
ClockValues == {0, 300, 301, 3601}

\* ------------------------------------------------------------- option type
None == << >>

Some(x) == << x >>

IsSome(o) == o # << >>

Unwrap(o) == o[1]

\* ----------------------------------------------------------------- strings
\* "t.dao"
TestGenesis == << "t", ".", "d", "a", "o" >>

\* "x.dao"
OtherGenesis == << "x", ".", "d", "a", "o" >>

\* "e.com"
ExampleCom == << "e", ".", "c", "o", "m" >>

\* The domains passed to resolve.
Domains == {TestGenesis, ExampleCom}

\* "192.168.1.100"
IpString100 == << "1", "9", "2", ".", "1", "6", "8", ".", "1", ".", "1", "0", "0" >>

\* "999.1.1.1": digits and dots, not an address
IpString999 == << "9", "9", "9", ".", "1", ".", "1", ".", "1" >>

\* genesis_tlds of is_genesis_domain
genesis_tlds == { << ".", "g", "e", "n", "e", "s", "i", "s" >>,
                  << ".", "f", "r", "e", "e" >>,
                  << ".", "w", "e", "b" >>,
                  << ".", "d", "e", "f", "i" >>,
                  << ".", "d", "a", "o" >> }

\* str::ends_with
ends_with(s, suffix) ==
    /\ Len(suffix) <= Len(s)
    /\ SubSeq(s, Len(s) - Len(suffix) + 1, Len(s)) = suffix

\* ------------------------------------------------- classification probes
\* the strings of tests::test_is_genesis_domain, and an upper-case one
\* "test.genesis"
ProbeTestGenesis == << "t", "e", "s", "t", ".", "g", "e", "n", "e", "s", "i", "s" >>

\* "freedom.free"
ProbeFreedomFree == << "f", "r", "e", "e", "d", "o", "m", ".", "f", "r", "e", "e" >>

\* "mysite.web"
ProbeMysiteWeb == << "m", "y", "s", "i", "t", "e", ".", "w", "e", "b" >>

\* "token.defi"
ProbeTokenDefi == << "t", "o", "k", "e", "n", ".", "d", "e", "f", "i" >>

\* "google.com"
ProbeGoogleCom == << "g", "o", "o", "g", "l", "e", ".", "c", "o", "m" >>

\* "example.org"
ProbeExampleOrg == << "e", "x", "a", "m", "p", "l", "e", ".", "o", "r", "g" >>

\* "TEST.GENESIS"
ProbeUpperGenesis == << "T", "E", "S", "T", ".", "G", "E", "N", "E", "S", "I", "S" >>

ProbeExamples == { ProbeTestGenesis, ProbeFreedomFree, ProbeMysiteWeb, ProbeTokenDefi, ProbeGoogleCom, ProbeExampleOrg, ProbeUpperGenesis }

\* what precedes the last label of a probe: "", "a", "a.web"
ProbePrefixes == { << >>, << "a" >>, << "a", ".", "w", "e", "b" >> }

\* endings that are not recognized labels: other case, no dot, other label,
\* a label with a letter more or less
ProbeOtherSuffixes == { << ".", "D", "A", "O" >>,
                        << ".", "W", "e", "b" >>,
                        << "d", "a", "o" >>,
                        << "w", "e", "b" >>,
                        << ".", "c", "o", "m" >>,
                        << ".", "o", "r", "g" >>,
                        << ".", "d", "a", "o", "s" >>,
                        << ".", "g", "e", "n", "e", "s", "i" >> }

\* the strings is_genesis_domain is applied to
ProbeDomains ==
    ProbeExamples \cup { p \o e : p \in ProbePrefixes,
                                    e \in genesis_tlds \cup ProbeOtherSuffixes }

\* ------------------------------------------------------- the browser window
\* "genesis://welcome"
WelcomeUrl == "genesis://welcome"

\* URLs given to create_tab and update_tab
TabUrls == {WelcomeUrl, "e.com"}

\* ------------------------------------------------------------ u64 arithmetic
\* i64 -> u64 cast of a timestamp
AsU64(x) == x % U64Modulus

\* a + b on u64 when the sum is not checked (release profile)
WrappingAdd(a, b) == (a + b) % U64Modulus

\* a + b leaves the u64 range
AddOverflows(a, b) == a + b >= U64Modulus

\* ------------------------------------------------- address parsing (IpAddr)
Digits == << "0", "1", "2", "3", "4", "5", "6", "7", "8", "9" >>

IsDigit(c) == \E i \in 1..10 : Digits[i] = c

DigitValue(c) == (CHOOSE i \in 1..10 : Digits[i] = c) - 1

\* positions of the dots of s
DotPositions(s) == { i \in 1..Len(s) : s[i] = "." }

RECURSIVE DecimalValue(_)
DecimalValue(s) ==
    IF s = << >> THEN 0
    ELSE 10 * DecimalValue(SubSeq(s, 1, Len(s) - 1)) + DigitValue(s[Len(s)])

\* one octet: 1..3 digits, no leading zero, at most 255
IsOctet(s) ==
    /\ Len(s) \in 1..3
    /\ \A i \in 1..Len(s) : IsDigit(s[i])
    /\ (Len(s) > 1 => s[1] # "0")
    /\ DecimalValue(s) <= 255

\* the four dot-separated parts of s, when it has exactly three dots
Parts(s) ==
    LET dots == DotPositions(s)
        d1 == CHOOSE i \in dots : \A j \in dots : i <= j
        d3 == CHOOSE i \in dots : \A j \in dots : j <= i
        d2 == CHOOSE i \in dots : i # d1 /\ i # d3
    IN  << SubSeq(s, 1, d1 - 1), SubSeq(s, d1 + 1, d2 - 1),
           SubSeq(s, d2 + 1, d3 - 1), SubSeq(s, d3 + 1, Len(s)) >>

\* ip_str.parse().ok() for the dotted-quad strings the service sends
parse_ip(s) ==
    IF Cardinality(DotPositions(s)) # 3 THEN None
    ELSE LET p == Parts(s)
         IN  IF \A i \in 1..4 : IsOctet(p[i])
             THEN Some([i \in 1..4 |-> DecimalValue(p[i])])
             ELSE None

\* ------------------------------------------------------- results and errors
Ok(r) == << "Ok", r >>

Err(kind, text) == << "Err", kind, text >>

\* no call has returned yet
NoReturn == << "None" >>

\* the call unwound with an arithmetic-overflow panic
Panic == << "Panic" >>

IsOk(res) == res[1] = "Ok"

IsErr(res) == res[1] = "Err"

ErrorKinds == {"UnsupportedDomain", "ConnectionError", "NodeError",
               "InvalidResponse", "ResolutionFailed", "NoResults"}

\* ------------------------------------------------------- the outside world
\* Tasks (webviews, the engine) holding a clone of the Arc of one resolver.
Callers == {1, 2}

\* Ids the WebViewManager hands out to the webviews it creates.
WebViewIds == {1, 2}

\* Cause texts carried by library errors (e.to_string(), status text).
CauseText == << "e" >>

\* address strings a name-service body can carry
IpStrings == {IpString100, IpString999}

\* parse_ip on those strings, evaluated once
ParsedIp == [s \in IpStrings |-> parse_ip(s)]

\* ttl values a name-service body can carry
ServiceTtls == {None, Some(300), Some(U64Max)}

\* GenesisDomain bodies the name service can answer with for a query
GenesisBodies(domain) ==
    [ name         : {domain, OtherGenesis},
      owner        : {<< "x" >>},
      resolver     : {<< "y" >>},
      content_hash : {None, Some("Qm123")},
      ip_address   : {None} \cup {Some(s) : s \in IpStrings},
      ttl          : ServiceTtls ]

\* outcomes of the GET to {node}/api/dns/resolve/{domain}
GenesisOutcomes(domain) ==
    { [kind |-> k, text |-> CauseText] : k \in {"send_err", "status_err", "json_err"} }
    \cup { [kind |-> "body", body |-> b] : b \in GenesisBodies(domain) }

\* GenesisOutcomes per queried domain, evaluated once
GenesisOutcomesOf == [d \in Domains |-> GenesisOutcomes(d)]

Ip100 == << 192, 168, 1, 100 >>

Ip7 == << 10, 0, 0, 7 >>

\* outcomes of lookup_ip: a failure, or the addresses returned, in order
LookupOutcomes ==
    { [kind |-> "err", text |-> CauseText] }
    \cup { [kind |-> "ok", ips |-> a] : a \in { << >>, << Ip100 >>, << Ip7, Ip100 >> } }

\* ------------------------------------------------------------------- state
VARIABLES
    cache,                \* GenesisDnsResolver.cache: domain -> DnsResult
    fallback_enabled,     \* GenesisDnsResolver.fallback_enabled
    traditional_fallback, \* cargo feature "traditional-fallback" of the build
    overflow_checks,      \* the build panics on integer overflow (else wraps)
    now,                  \* chrono::Utc::now().timestamp()
    op,                   \* the last operation called
    arg,                  \* its domain argument (None for cleanup_cache)
    ret,                  \* what it returned
    path,                 \* what the cache lookup of the last resolve found
    strategy,             \* the strategy function the last resolve invoked
    reply,                \* what the network answered the last call (None: no I/O)
    genesis_requests,     \* GETs the last call sent to the name service
    dns_lookups,          \* lookup_ip calls the last call made
    lock,                 \* holder of the write half of the RwLock (0: free)
    pc,                   \* where each caller of the shared resolver stands
    host,                 \* the host each caller is resolving (None: idle)
    sent,                 \* GETs the current resolve of each caller has sent
    returned,             \* what the current resolve of each caller returned
    raced,                \* the caller's resolve began while another caller's
                          \* resolve of the same uncached host was under way
    webviews,             \* WebViewManager: the cache of each webview's resolver
    tab_sent,             \* GETs the last navigation of each webview has sent
    current_url,          \* GenesisWebView: the URL shown (None: new tab)
    is_loading,           \* GenesisWebView: a load is under way
    history,              \* GenesisWebView: the URLs visited
    history_index,        \* GenesisWebView: position in history (from 0)
    queued,               \* events in the webview's channel, not yet received
    emitted,              \* events the last webview call has sent
    wv_op,                \* the last call on the webview
    wv_ret,               \* how it ended: Ok, Err, Panic, or Blocked in a send
    guard_held,           \* the resolver's write guard is still held
    tabs,                 \* BrowserUIState: the tabs, in order
    active_tab_index,     \* BrowserUIState: index of the active tab (from 0)
    url_input,            \* BrowserUIState: text of the address bar
    ui_history,           \* BrowserUIState: history entries, oldest first
    navigation_history,   \* BrowserUIState: URLs navigated to, oldest first
    ui_op,                \* the last call on the BrowserUIState
    ui_arg,               \* its index or URL argument
    ui_ret                \* what it returned

vars == << cache, fallback_enabled, traditional_fallback, overflow_checks, now,
           op, arg, ret, path, strategy, reply, genesis_requests,
           dns_lookups, lock, pc, host, sent, returned, raced,
           webviews, tab_sent, current_url, is_loading, history,
           history_index, queued, emitted, wv_op, wv_ret, guard_held, tabs,
           active_tab_index, url_input, ui_history, navigation_history,
           ui_op, ui_arg, ui_ret >>

\* the callers' side of a resolver shared behind Arc<RwLock<..>>
shared_vars == << lock, pc, host, sent, returned, raced >>

\* the tabs of the WebViewManager
tabs_vars == << webviews, tab_sent >>

\* the browser around the resolver
\* one GenesisWebView
wv_vars == << current_url, is_loading, history, history_index, queued,
             emitted, wv_op, wv_ret, guard_held >>

\* the tab list of BrowserUIState
tablist_vars == << tabs, active_tab_index, url_input >>

\* the browsing history of BrowserUIState
uihistory_vars == << ui_history, navigation_history >>

\* what the last call on the BrowserUIState did
uicall_vars == << ui_op, ui_arg, ui_ret >>

ui_vars == << tablist_vars, uihistory_vars, uicall_vars >>

browser_vars == << tabs_vars, wv_vars, ui_vars >>

\* what the last direct call on the resolver did
call_vars == << op, arg, ret, path, strategy, reply, genesis_requests,
               dns_lookups >>

config == << fallback_enabled, traditional_fallback, overflow_checks >>

\* ------------------------------------------------------------- the resolver
\* the entry stored under the record's own domain field
cache_insert_by_record_domain(c, key, value) ==
    [k \in (DOMAIN c) \cup {value.domain} |->
        IF k = value.domain THEN value ELSE c[k]]

\* HashMap::insert
cache_insert(c, key, value) ==
    [k \in (DOMAIN c) \cup {key} |-> IF k = key THEN value ELSE c[k]]

\* result.timestamp + result.ttl as the release build computes it
expiry_sum(result) == WrappingAdd(result.timestamp, result.ttl)

\* the same sum panics in a build with overflow checks
expiry_panics(result) ==
    overflow_checks /\ AddOverflows(result.timestamp, result.ttl)

\* off by one: an entry is still served one second past its validity
is_cache_expired_late(result, t) == AsU64(t) > expiry_sum(result) + 1

is_cache_expired(result, t) == AsU64(t) > expiry_sum(result)

cleanup_keeps(result, t) == AsU64(t) <= expiry_sum(result)

\* HashMap::retain with the closure of cleanup_cache
cache_retain(c, t) ==
    [k \in {x \in DOMAIN c : cleanup_keeps(c[x], t)} |-> c[k]]

\* every entry that is not conventional counted as a name-service entry
cache_stats_rest_as_genesis(c) ==
    [ total_entries       |-> Cardinality(DOMAIN c),
      genesis_domains     |-> Cardinality({ k \in DOMAIN c :
                                  c[k].resolver_type # "Traditional" }),
      traditional_domains |-> Cardinality({ k \in DOMAIN c :
                                  c[k].resolver_type = "Traditional" }) ]

\* CacheStats of cache_stats
cache_stats(c) ==
    [ total_entries       |-> Cardinality(DOMAIN c),
      genesis_domains     |-> Cardinality({ k \in DOMAIN c :
                                  c[k].resolver_type = "Genesis" }),
      traditional_domains |-> Cardinality({ k \in DOMAIN c :
                                  c[k].resolver_type = "Traditional" }) ]

\* the label looked for anywhere in the domain
is_genesis_domain_contains(domain) ==
    \E tld \in genesis_tlds : \E i \in 1..(Len(domain) - Len(tld) + 1) :
        SubSeq(domain, i, i + Len(tld) - 1) = tld

is_genesis_domain(domain) ==
    \E tld \in genesis_tlds : ends_with(domain, tld)

\* the strategy tag taken from the content hash instead of the parsed address
convert_genesis_domain_tag_by_hash(genesis_domain, t) ==
    LET ip_address == IF IsSome(genesis_domain.ip_address)
                      THEN ParsedIp[Unwrap(genesis_domain.ip_address)]
                      ELSE None
    IN  [ domain        |-> genesis_domain.name,
          ip_address    |-> ip_address,
          content_hash  |-> genesis_domain.content_hash,
          resolver_type |-> IF IsSome(genesis_domain.content_hash)
                            THEN "IPFS" ELSE "Genesis",
          ttl           |-> IF IsSome(genesis_domain.ttl)
                            THEN Unwrap(genesis_domain.ttl) ELSE 3600,
          timestamp     |-> AsU64(t) ]

\* the default ttl of the conventional strategy used for name-service records
convert_genesis_domain_ttl_300(genesis_domain, t) ==
    LET ip_address == IF IsSome(genesis_domain.ip_address)
                      THEN ParsedIp[Unwrap(genesis_domain.ip_address)]
                      ELSE None
    IN  [ domain        |-> genesis_domain.name,
          ip_address    |-> ip_address,
          content_hash  |-> genesis_domain.content_hash,
          resolver_type |-> IF IsSome(ip_address) THEN "Genesis" ELSE "IPFS",
          ttl           |-> IF IsSome(genesis_domain.ttl)
                            THEN Unwrap(genesis_domain.ttl) ELSE 300,
          timestamp     |-> AsU64(t) ]

convert_genesis_domain(genesis_domain, t) ==
    LET ip_address == IF IsSome(genesis_domain.ip_address)
                      THEN ParsedIp[Unwrap(genesis_domain.ip_address)]
                      ELSE None
    IN  [ domain        |-> genesis_domain.name,
          ip_address    |-> ip_address,
          content_hash  |-> genesis_domain.content_hash,
          resolver_type |-> IF IsSome(ip_address) THEN "Genesis" ELSE "IPFS",
          ttl           |-> IF IsSome(genesis_domain.ttl)
                            THEN Unwrap(genesis_domain.ttl) ELSE 3600,
          timestamp     |-> AsU64(t) ]

\* the status of the response not tested before the body is parsed
resolve_genesis_domain_no_status(domain, outcome, t) ==
    CASE outcome.kind = "send_err"   -> Err("ConnectionError", outcome.text)
      [] outcome.kind = "status_err" -> Err("InvalidResponse", outcome.text)
      [] outcome.kind = "json_err"   -> Err("InvalidResponse", outcome.text)
      [] outcome.kind = "body"       -> Ok(convert_genesis_domain(outcome.body, t))

resolve_genesis_domain(domain, outcome, t) ==
    CASE outcome.kind = "send_err"   -> Err("ConnectionError", outcome.text)
      [] outcome.kind = "status_err" -> Err("NodeError", outcome.text)
      [] outcome.kind = "json_err"   -> Err("InvalidResponse", outcome.text)
      [] outcome.kind = "body"       -> Ok(convert_genesis_domain(outcome.body, t))

\* an empty answer accepted: the record carries no address
resolve_traditional_domain_empty_ok(domain, lookup, t) ==
    IF ~ traditional_fallback THEN Err("UnsupportedDomain", domain)
    ELSE IF lookup.kind = "err" THEN Err("ResolutionFailed", lookup.text)
    ELSE Ok([ domain        |-> domain,
              ip_address    |-> IF lookup.ips = << >> THEN None
                                ELSE Some(lookup.ips[1]),
              content_hash  |-> None,
              resolver_type |-> "Traditional",
              ttl           |-> 300,
              timestamp     |-> AsU64(t) ])

\* the last address of the answer taken instead of the first
resolve_traditional_domain_last_ip(domain, lookup, t) ==
    IF ~ traditional_fallback THEN Err("UnsupportedDomain", domain)
    ELSE IF lookup.kind = "err" THEN Err("ResolutionFailed", lookup.text)
    ELSE IF lookup.ips = << >> THEN Err("NoResults", domain)
    ELSE Ok([ domain        |-> domain,
              ip_address    |-> Some(lookup.ips[Len(lookup.ips)]),
              content_hash  |-> None,
              resolver_type |-> "Traditional",
              ttl           |-> 300,
              timestamp     |-> AsU64(t) ])

resolve_traditional_domain(domain, lookup, t) ==
    IF ~ traditional_fallback THEN Err("UnsupportedDomain", domain)
    ELSE IF lookup.kind = "err" THEN Err("ResolutionFailed", lookup.text)
    ELSE IF lookup.ips = << >> THEN Err("NoResults", domain)
    ELSE Ok([ domain        |-> domain,
              ip_address    |-> Some(lookup.ips[1]),
              content_hash  |-> None,
              resolver_type |-> "Traditional",
              ttl           |-> 300,
              timestamp     |-> AsU64(t) ])

\* the fallback flag tested before the suffix
select_strategy_fallback_first(domain) ==
    IF fallback_enabled THEN "traditional"
    ELSE IF is_genesis_domain(domain) THEN "genesis"
    ELSE "none"

\* the fallback flag not consulted
select_strategy_ignore_flag(domain) ==
    IF is_genesis_domain(domain) THEN "genesis" ELSE "traditional"

\* which strategy resolve selects after a cache miss
select_strategy(domain) ==
    IF is_genesis_domain(domain) THEN "genesis"
    ELSE IF fallback_enabled THEN "traditional"
    ELSE "none"

\* a failed resolution evicts the entry of the domain
cache_after_evict_on_error(c, domain, result) ==
    IF IsOk(result) THEN cache_insert(c, domain, result[2])
    ELSE [k \in (DOMAIN c) \ {domain} |-> c[k]]

\* a record with neither address nor content hash is returned but not cached
cache_after_skip_empty(c, domain, result) ==
    IF IsOk(result) /\ (IsSome(result[2].ip_address) \/ IsSome(result[2].content_hash))
    THEN cache_insert(c, domain, result[2])
    ELSE c

\* the cache after the strategy returned result
cache_after(c, domain, result) ==
    IF IsOk(result) THEN cache_insert(c, domain, result[2]) ELSE c

\* a failed GET sent a second time
requests_for_retry(strat) == IF strat = "genesis" THEN 2 ELSE 0

\* GETs resolve sends to the name service for a strategy
requests_for(strat) == IF strat = "genesis" THEN 1 ELSE 0

\* lookup_ip calls resolve makes for a strategy
lookups_for(strat) ==
    IF strat = "traditional" /\ traditional_fallback THEN 1 ELSE 0

\* the strategy's result
strategy_result(strat, domain, outcome, lookup, t) ==
    CASE strat = "genesis"     -> resolve_genesis_domain(domain, outcome, t)
      [] strat = "traditional" -> resolve_traditional_domain(domain, lookup, t)
      [] strat = "none"        -> Err("UnsupportedDomain", domain)

\* ------------------------------------------------------------------ actions
Init ==
    /\ cache = << >>
    /\ fallback_enabled \in BOOLEAN
    /\ traditional_fallback \in BOOLEAN
    /\ overflow_checks \in BOOLEAN
    /\ now = 0
    /\ op = "new"
    /\ arg = None
    /\ ret = NoReturn
    /\ path = "none"
    /\ strategy = "none"
    /\ reply = None
    /\ genesis_requests = 0
    /\ dns_lookups = 0
    /\ lock = 0
    /\ pc = [c \in Callers |-> "idle"]
    /\ host = [c \in Callers |-> None]
    /\ sent = [c \in Callers |-> 0]
    /\ returned = [c \in Callers |-> NoReturn]
    /\ raced = [c \in Callers |-> FALSE]
    /\ webviews = << >>
    /\ tab_sent = [w \in WebViewIds |-> 0]
    /\ current_url = None
    /\ is_loading = FALSE
    /\ history = << >>
    /\ history_index = 0
    /\ queued = 0
    /\ emitted = << >>
    /\ wv_op = "new"
    /\ wv_ret = "Ok"
    /\ guard_held = FALSE
    /\ tabs = << [id |-> 1, url |-> WelcomeUrl] >>
    /\ active_tab_index = 0
    /\ url_input = WelcomeUrl
    /\ ui_history = << >>
    /\ navigation_history = << >>
    /\ ui_op = "default"
    /\ ui_arg = None
    /\ ui_ret = << "Unit" >>

\* what the environment hands the selected strategy
StrategyInputs(strat, domain) ==
    CASE strat = "genesis"     -> GenesisOutcomesOf[domain]
      [] strat = "traditional" -> IF traditional_fallback THEN LookupOutcomes
                                  ELSE {None}
      [] strat = "none"        -> {None}

\* clock readings after the strategy's network round trip: none passes
\* without I/O, otherwise the clock may have moved to its next reading
ArrivalTimes(strat) ==
    IF requests_for(strat) + lookups_for(strat) = 0 THEN {now}
    ELSE {now} \cup { t \in ClockValues :
                        /\ t > now
                        /\ \A u \in ClockValues : u > now => t <= u }

\* resolve(domain); the clock reads t when the strategy builds its record
Resolve(domain) ==
    /\ op' = "resolve"
    /\ arg' = Some(domain)
    /\ UNCHANGED << config, shared_vars, browser_vars >>
    /\ IF domain \in DOMAIN cache /\ expiry_panics(cache[domain])
       THEN /\ ret' = Panic
            /\ path' = "panic"
            /\ strategy' = "none"
            /\ reply' = None
            /\ genesis_requests' = 0
            /\ dns_lookups' = 0
            /\ UNCHANGED << cache, now >>
       ELSE IF domain \in DOMAIN cache /\ ~ is_cache_expired(cache[domain], now)
       THEN /\ ret' = Ok(cache[domain])
            /\ path' = "hit"
            /\ strategy' = "none"
            /\ reply' = None
            /\ genesis_requests' = 0
            /\ dns_lookups' = 0
            /\ UNCHANGED << cache, now >>
       ELSE LET strat == select_strategy(domain)
            IN  \E input \in StrategyInputs(strat, domain),
                   t \in ArrivalTimes(strat) :
                    LET result == strategy_result(strat, domain, input, input, t)
                    IN  /\ ret' = result
                        /\ path' = IF domain \in DOMAIN cache
                                   THEN "expired" ELSE "absent"
                        /\ strategy' = strat
                        /\ reply' = input
                        /\ genesis_requests' = requests_for(strat)
                        /\ dns_lookups' = lookups_for(strat)
                        /\ cache' = cache_after(cache, domain, result)
                        /\ now' = t

\* cleanup_cache(); a panic inside retain leaves the entries already visited
\* removed, in whatever order the map iterated
CleanupCache ==
    /\ op' = "cleanup"
    /\ arg' = None
    /\ path' = "none"
    /\ strategy' = "none"
    /\ reply' = None
    /\ genesis_requests' = 0
    /\ dns_lookups' = 0
    /\ UNCHANGED << config, now, shared_vars, browser_vars >>
    /\ IF \E k \in DOMAIN cache : expiry_panics(cache[k])
       THEN /\ ret' = Panic
            /\ \E removed \in SUBSET { k \in DOMAIN cache :
                                         /\ ~ expiry_panics(cache[k])
                                         /\ ~ cleanup_keeps(cache[k], now) } :
                   cache' = [k \in (DOMAIN cache) \ removed |-> cache[k]]
       ELSE /\ ret' = << "Unit" >>
            /\ cache' = cache_retain(cache, now)

\* cache_stats()
CacheStats ==
    /\ op' = "stats"
    /\ arg' = None
    /\ ret' = << "Stats", cache_stats(cache) >>
    /\ path' = "none"
    /\ strategy' = "none"
    /\ reply' = None
    /\ genesis_requests' = 0
    /\ dns_lookups' = 0
    /\ UNCHANGED << cache, config, now, shared_vars, browser_vars >>

\* the wall clock moves on
Tick ==
    /\ \E t \in ClockValues : t > now /\ now' = t
    /\ UNCHANGED << cache, config, call_vars, shared_vars, browser_vars >>

Next ==
    \/ \E domain \in Domains : Resolve(domain)
    \/ CleanupCache
    \/ CacheStats
    \/ Tick

Spec == Init /\ [][Next]_vars

\* The running browser: time passes and hosts keep being resolved.  Nothing
\* in the repository calls cleanup_cache, so no fairness is assumed for it.
SpecLive ==
    /\ Init
    /\ [][Next]_vars
    /\ WF_vars(Tick)
    /\ \A domain \in Domains : WF_vars(Resolve(domain))

\* ------------------------------------------------ classification on its own
\* is_genesis_domain(domain) applied to one probe
Classify(domain) ==
    /\ op' = "is_genesis_domain"
    /\ arg' = Some(domain)
    /\ ret' = << "Bool", is_genesis_domain(domain) >>
    /\ UNCHANGED << cache, config, now, path, strategy, reply,
                    genesis_requests, dns_lookups, shared_vars,
                    browser_vars >>

NextClassify == \E domain \in ProbeDomains : Classify(domain)

SpecClassify == Init /\ [][NextClassify]_vars

\* ------------------------------------------------ one resolver, two callers
\* GenesisWebView::resolve_genesis_domain and ServoEngine::navigate take the
\* write lock, await resolve under it, and drop the guard when they return.
\* resolve is cut at its await points: the lookup in the cache up to the GET,
\* and the arrival of the reply with the insert.

\* hosts the callers navigate to (only Genesis hosts reach the resolver)
SharedDomains == {TestGenesis, OtherGenesis}

\* replies of the name service in this setting
SharedOutcomes(domain) ==
    { [kind |-> "send_err", text |-> CauseText] }
    \cup { [kind |-> "body",
             body |-> [ name         |-> domain,
                        owner        |-> << "x" >>,
                        resolver     |-> << "y" >>,
                        content_hash |-> None,
                        ip_address   |-> Some(IpString100),
                        ttl          |-> ttl ]] : ttl \in {None, Some(300)} }

\* the resolver as the webview and the engine construct it (fallback true)
InitShared ==
    /\ Init
    /\ fallback_enabled
    /\ traditional_fallback
    /\ ~ overflow_checks

\* a caller starts resolving a host and asks for the write lock
Navigate(c, domain) ==
    /\ pc[c] = "idle"
    /\ is_genesis_domain(domain)
    /\ pc' = [pc EXCEPT ![c] = "acquiring"]
    /\ host' = [host EXCEPT ![c] = Some(domain)]
    /\ sent' = [sent EXCEPT ![c] = 0]
    /\ returned' = [returned EXCEPT ![c] = NoReturn]
    /\ raced' = [raced EXCEPT ![c] =
                   /\ domain \notin DOMAIN cache
                   /\ \E o \in Callers \ {c} :
                         /\ host[o] = Some(domain)
                         /\ pc[o] \in {"acquiring", "locked", "waiting"}]
    /\ UNCHANGED << browser_vars, cache, config, now, call_vars, lock >>

\* dns_resolver.write().await returns the guard
AcquireWrite(c) ==
    /\ pc[c] = "acquiring"
    /\ lock = 0
    /\ lock' = c
    /\ pc' = [pc EXCEPT ![c] = "locked"]
    /\ UNCHANGED << browser_vars, cache, config, now, call_vars, host, sent,
                    returned, raced >>

\* resolve up to its first await: the cache lookup, then the GET is sent
BeginResolve(c) ==
    /\ pc[c] = "locked"
    /\ LET domain == Unwrap(host[c])
       IN  IF domain \in DOMAIN cache /\ expiry_panics(cache[domain])
           THEN /\ returned' = [returned EXCEPT ![c] = Panic]
                /\ pc' = [pc EXCEPT ![c] = "resolved"]
                /\ UNCHANGED sent
           ELSE IF domain \in DOMAIN cache /\ ~ is_cache_expired(cache[domain], now)
           THEN /\ returned' = [returned EXCEPT ![c] = Ok(cache[domain])]
                /\ pc' = [pc EXCEPT ![c] = "resolved"]
                /\ UNCHANGED sent
           ELSE /\ sent' = [sent EXCEPT ![c] = requests_for(select_strategy(domain))]
                /\ pc' = [pc EXCEPT ![c] = "waiting"]
                /\ UNCHANGED returned
    /\ UNCHANGED << browser_vars, cache, config, now, call_vars, lock, host, raced >>

\* the reply of the name service arrives; resolve maps it, caches and returns
ReceiveReply(c) ==
    /\ pc[c] = "waiting"
    /\ \E outcome \in SharedOutcomes(Unwrap(host[c])) :
          LET domain == Unwrap(host[c])
              res    == resolve_genesis_domain(domain, outcome, now)
          IN  /\ returned' = [returned EXCEPT ![c] = res]
              /\ cache' = cache_after(cache, domain, res)
    /\ pc' = [pc EXCEPT ![c] = "resolved"]
    /\ UNCHANGED << browser_vars, config, now, call_vars, lock, host, sent, raced >>

\* the caller's function returns and the write guard is dropped
Release(c) ==
    /\ pc[c] = "resolved"
    /\ lock' = IF lock = c THEN 0 ELSE lock
    /\ pc' = [pc EXCEPT ![c] = "idle"]
    /\ host' = [host EXCEPT ![c] = None]
    /\ UNCHANGED << browser_vars, cache, config, now, call_vars, sent,
                    returned, raced >>

NextShared ==
    \/ \E c \in Callers, domain \in SharedDomains : Navigate(c, domain)
    \/ \E c \in Callers : AcquireWrite(c)
    \/ \E c \in Callers : BeginResolve(c)
    \/ \E c \in Callers : ReceiveReply(c)
    \/ \E c \in Callers : Release(c)
    \/ Tick

SpecShared == InitShared /\ [][NextShared]_vars

\* ------------------------------------------------- the tabs of one browser
\* WebViewManager::create_webview builds a resolver of its own for every
\* webview; a navigation to a Genesis host resolves it through the resolver
\* of the webview it runs in.

\* create_webview: the next id, with a new resolver whose cache is empty
CreateWebView ==
    /\ \E id \in WebViewIds :
          /\ id = Cardinality(DOMAIN webviews) + 1
          /\ webviews' = [w \in DOMAIN webviews \cup {id} |->
                            IF w = id THEN << >> ELSE webviews[w]]
          /\ tab_sent' = [tab_sent EXCEPT ![id] = 0]
    /\ UNCHANGED << cache, config, now, call_vars, shared_vars, wv_vars,
                    ui_vars >>

\* navigate in webview w to a Genesis host: resolve on the webview's resolver
TabNavigate(w, domain) ==
    /\ w \in DOMAIN webviews
    /\ is_genesis_domain(domain)
    /\ LET c == webviews[w]
       IN  IF domain \in DOMAIN c /\ ~ is_cache_expired(c[domain], now)
           THEN /\ tab_sent' = [tab_sent EXCEPT ![w] = 0]
                /\ UNCHANGED webviews
           ELSE \E outcome \in SharedOutcomes(domain) :
                  LET res == resolve_genesis_domain(domain, outcome, now)
                  IN  /\ webviews' = [webviews EXCEPT
                                         ![w] = cache_after(c, domain, res)]
                      /\ tab_sent' = [tab_sent EXCEPT
                            ![w] = requests_for(select_strategy(domain))]
    /\ UNCHANGED << cache, config, now, call_vars, shared_vars, wv_vars,
                    ui_vars >>

NextTabs ==
    \/ CreateWebView
    \/ \E w \in WebViewIds, domain \in SharedDomains : TabNavigate(w, domain)
    \/ Tick

SpecTabs == InitShared /\ [][NextTabs]_vars

\* ------------------------------------------------------- one GenesisWebView
\* The webview with the resolver it was given (cache) and its event channel.
\* A Url is a record of scheme, host and path; the strings passed to navigate
\* have the same parts, the scheme being optional.

\* mpsc::channel(100)
EventChannelCapacity == 100

\* longest history explored
MaxHistory == 3

\* "ipfs.io"
IpfsHost == << "i", "p", "f", "s", ".", "i", "o" >>

\* the strings passed to navigate: "e.com", "https://t.dao", ""
WebInputs ==
    { [scheme |-> None,          host |-> ExampleCom,  path |-> << >>],
      [scheme |-> Some("https"), host |-> TestGenesis, path |-> << >>],
      [scheme |-> None,          host |-> << >>,       path |-> << >>] }

\* replies of the name service to the webview's resolver
WebOutcomes(domain) ==
    { [kind |-> "send_err", text |-> CauseText] }
    \cup { [kind |-> "body",
             body |-> [ name         |-> domain,
                        owner        |-> << "x" >>,
                        resolver     |-> << "y" >>,
                        content_hash |-> b[1],
                        ip_address   |-> b[2],
                        ttl          |-> None ]] :
             b \in { << None, Some(IpString100) >>,
                     << Some("Qm123"), None >> } }

\* usize a - b when the difference is not checked (release profile)
wrapping_sub(a, b) == (a - b) % U64Modulus

\* u8 to decimal digits
RECURSIVE format_decimal(_)
format_decimal(n) ==
    IF n < 10 THEN << Digits[n + 1] >>
    ELSE format_decimal(n \div 10) \o << Digits[(n % 10) + 1] >>

\* IpAddr::to_string for a v4 address
format_ip(ip) ==
    format_decimal(ip[1]) \o << "." >> \o format_decimal(ip[2]) \o << "." >>
    \o format_decimal(ip[3]) \o << "." >> \o format_decimal(ip[4])

\* the "http://" prefix is added when the string has no scheme; Url::parse
\* fails on an empty host
parse_url(input) ==
    IF input.host = << >>
    THEN << "Err" >>
    ELSE << "Ok", [ scheme |-> IF IsSome(input.scheme)
                               THEN Unwrap(input.scheme) ELSE "http",
                    host   |-> input.host,
                    path   |-> input.path ] >>

\* Url::to_string
url_to_string(url) ==
    [scheme |-> Some(url.scheme), host |-> url.host, path |-> url.path]

\* GenesisWebView::is_genesis_domain
webview_is_genesis_domain(h) ==
    \E tld \in genesis_tlds : ends_with(h, tld)

\* Sender::send waits while the channel is full
channel_full(q) == q >= EventChannelCapacity

can_go_back(w) == w.history_index > 0

\* history.len() - 1 underflows on an empty history
len_minus_one_panics(w) == overflow_checks /\ Len(w.history) = 0

\* can_go_forward without the test of an empty history
can_go_forward(w) == w.history_index < wrapping_sub(Len(w.history), 1)

\* Vec::truncate
truncate(h, n) == IF n < Len(h) THEN SubSeq(h, 1, n) ELSE h

add_to_history(w, url) ==
    LET h1 == IF w.history_index < wrapping_sub(Len(w.history), 1)
              THEN truncate(w.history, w.history_index + 1)
              ELSE w.history
        h2 == Append(h1, url)
    IN  [w EXCEPT !.history = h2, !.history_index = Len(h2) - 1]

\* the one element of a singleton set
Only(S) == CHOOSE x \in S : TRUE

\* GenesisDnsResolver::resolve on cache c, as a function: the result and the
\* cache afterwards
resolve_on(c, h, outcome, t) ==
    LET hit == h \in DOMAIN c /\ ~ is_cache_expired(c[h], t)
        res == IF hit THEN Ok(c[h]) ELSE resolve_genesis_domain(h, outcome, t)
    IN  [ panics |-> h \in DOMAIN c /\ expiry_panics(c[h]),
          res    |-> res,
          c      |-> IF hit THEN c ELSE cache_after(c, h, res) ]

\* the match on the resolver's result: send SecurityStateChanged or
\* LoadError, rewrite the URL on success
resolved_url(w, c, url, rr) ==
    LET res    == rr.res
        target == IF ~ IsOk(res) THEN url
                  ELSE IF IsSome(res[2].ip_address)
                  THEN [url EXCEPT !.host = format_ip(Unwrap(res[2].ip_address))]
                  ELSE IF IsSome(res[2].content_hash)
                  THEN [ scheme |-> "https", host |-> IpfsHost,
                         path |-> << "ipfs", Unwrap(res[2].content_hash) >> ]
                  ELSE url
    IN  IF rr.panics
        THEN [ ret |-> "Panic", url |-> url, c |-> c, queued |-> w.queued,
               emitted |-> << >>, guard |-> FALSE ]
        ELSE IF channel_full(w.queued)
        THEN [ ret |-> "Blocked", url |-> url, c |-> rr.c, queued |-> w.queued,
               emitted |-> << >>, guard |-> TRUE ]
        ELSE [ ret |-> "Ok", url |-> target, c |-> rr.c, queued |-> w.queued + 1,
               emitted |-> IF IsOk(res) THEN << "SecurityStateChanged" >>
                                        ELSE << "LoadError" >>,
               guard |-> FALSE ]

\* GenesisWebView::resolve_genesis_domain: resolve under the write guard,
\* then the match on the result
webview_resolve_genesis_domain(w, c, url, outcome, t) ==
    Only({ resolved_url(w, c, url, rr) :
             rr \in { resolve_on(c, url.host, outcome, t) } })

parse_and_resolve_url(w, c, input, outcome, t) ==
    LET parsed == parse_url(input)
    IN  IF parsed[1] = "Err"
        THEN [ ret |-> "Err", url |-> input, c |-> c, queued |-> w.queued,
               emitted |-> << >>, guard |-> FALSE ]
        ELSE IF webview_is_genesis_domain(parsed[2].host)
        THEN webview_resolve_genesis_domain(w, c, parsed[2], outcome, t)
        ELSE [ ret |-> "Ok", url |-> parsed[2], c |-> c, queued |-> w.queued,
               emitted |-> << >>, guard |-> FALSE ]

\* navigate after parse_and_resolve_url has returned r; ServoEngine::navigate
\* in between changes nothing of the webview and returns Ok
load(w, r) ==
    LET w0 == [w EXCEPT !.queued = r.queued]
    IN  IF r.ret # "Ok"
        THEN [ w |-> w0, c |-> r.c, ret |-> r.ret, emitted |-> r.emitted,
               guard |-> r.guard ]
        ELSE IF channel_full(w0.queued)
        THEN [ w |-> w0, c |-> r.c, ret |-> "Blocked", emitted |-> r.emitted,
               guard |-> FALSE ]
        ELSE LET w1 == [w0 EXCEPT !.queued = @ + 1, !.is_loading = TRUE,
                                  !.current_url = Some(r.url)]
                 e1 == Append(r.emitted, "LoadStarted")
             IN  IF len_minus_one_panics(w1)
                 THEN [ w |-> w1, c |-> r.c, ret |-> "Panic", emitted |-> e1,
                        guard |-> FALSE ]
                 ELSE LET w2 == add_to_history(w1, r.url)
                      IN  IF channel_full(w2.queued)
                          THEN [ w |-> w2, c |-> r.c, ret |-> "Blocked",
                                 emitted |-> e1, guard |-> FALSE ]
                          ELSE [ w |-> [w2 EXCEPT !.queued = @ + 1,
                                                  !.is_loading = FALSE],
                                 c |-> r.c, ret |-> "Ok",
                                 emitted |-> Append(e1, "LoadFinished"),
                                 guard |-> FALSE ]

\* GenesisWebView::navigate
navigate(w, c, input, outcome, t) ==
    Only({ load(w, r) : r \in { parse_and_resolve_url(w, c, input, outcome, t) } })

\* the webview's fields as one value
webview ==
    [ current_url |-> current_url, is_loading |-> is_loading,
      history |-> history, history_index |-> history_index, queued |-> queued ]

\* a call on the webview ended with r
webview_becomes(name, r) ==
    /\ current_url' = r.w.current_url
    /\ is_loading' = r.w.is_loading
    /\ history' = r.w.history
    /\ history_index' = r.w.history_index
    /\ queued' = r.w.queued
    /\ cache' = r.c
    /\ emitted' = r.emitted
    /\ wv_op' = name
    /\ wv_ret' = r.ret
    /\ guard_held' = r.guard
    /\ UNCHANGED << config, now, call_vars, shared_vars, tabs_vars, ui_vars >>

\* a call that changed nothing and returned Ok
unchanged_ok(w, c) ==
    [ w |-> w, c |-> c, ret |-> "Ok", emitted |-> << >>, guard |-> FALSE ]

\* the webview can be called: no call on it is stuck or has panicked
callable == wv_ret \in {"Ok", "Err"}

\* the resolver as WebViewManager::create_webview constructs it
InitWebView ==
    /\ Init
    /\ fallback_enabled
    /\ traditional_fallback

\* GenesisWebView::go_back
go_back(w, c, outcome, t) ==
    IF can_go_back(w)
    THEN LET w1 == [w EXCEPT !.history_index = @ - 1]
         IN  navigate(w1, c, url_to_string(w1.history[w1.history_index + 1]),
                      outcome, t)
    ELSE unchanged_ok(w, c)

\* GenesisWebView::go_forward; indexing past the end of history panics
go_forward(w, c, outcome, t) ==
    IF len_minus_one_panics(w)
    THEN [unchanged_ok(w, c) EXCEPT !.ret = "Panic"]
    ELSE IF can_go_forward(w)
    THEN LET w1 == [w EXCEPT !.history_index = @ + 1]
         IN  IF w1.history_index >= Len(w1.history)
             THEN [unchanged_ok(w1, c) EXCEPT !.ret = "Panic"]
             ELSE navigate(w1, c,
                           url_to_string(w1.history[w1.history_index + 1]),
                           outcome, t)
    ELSE unchanged_ok(w, c)

\* GenesisWebView::reload
reload(w, c, outcome, t) ==
    IF IsSome(w.current_url)
    THEN navigate(w, c, url_to_string(Unwrap(w.current_url)), outcome, t)
    ELSE unchanged_ok(w, c)

Navigation(input) ==
    /\ callable
    /\ Len(history) < MaxHistory
    /\ \E outcome \in WebOutcomes(input.host) :
          \E r \in { navigate(webview, cache, input, outcome, now) } :
              webview_becomes("navigate", r)

GoBack ==
    /\ callable
    /\ \E outcome \in WebOutcomes(TestGenesis) :
          \E r \in { go_back(webview, cache, outcome, now) } :
              webview_becomes("go_back", r)

GoForward ==
    /\ callable
    /\ Len(history) < MaxHistory
    /\ \E outcome \in WebOutcomes(TestGenesis) :
          \E r \in { go_forward(webview, cache, outcome, now) } :
              webview_becomes("go_forward", r)

Reload ==
    /\ callable
    /\ Len(history) < MaxHistory
    /\ \E outcome \in WebOutcomes(TestGenesis) :
          \E r \in { reload(webview, cache, outcome, now) } :
              webview_becomes("reload", r)

\* next_event takes one event out of the channel
NextEvent ==
    /\ callable
    /\ queued > 0
    /\ queued' = queued - 1
    /\ wv_op' = "next_event"
    /\ emitted' = << >>
    /\ UNCHANGED << cache, config, now, call_vars, shared_vars, tabs_vars,
                    ui_vars, current_url, is_loading, history, history_index, wv_ret,
                    guard_held >>

NextWebView ==
    \/ \E input \in WebInputs : Navigation(input)
    \/ GoBack
    \/ GoForward
    \/ Reload
    \/ NextEvent

SpecWebView == InitWebView /\ [][NextWebView]_vars

\* ------------------------------------------------- BrowserUIState: the tabs
\* A tab is its id (a fresh uuid) and its url; the other fields of BrowserTab
\* play no part in the tab list.

\* most tabs open at once
MaxTabs == 3

\* uuids for the tabs
TabIds == 1..(MaxTabs + 1)

\* indices passed to close_tab, switch_to_tab and update_tab: each position
\* of the longest list and one past it
TabIndices == 0..MaxTabs

\* Vec::remove(index), index from 0
remove_at(v, index) ==
    SubSeq(v, 1, index) \o SubSeq(v, index + 2, Len(v))

\* close_tab refusing only an empty list
close_tab_allow_last(ts, active, index) ==
    IF Len(ts) > 0 /\ index < Len(ts)
    THEN LET rest == remove_at(ts, index)
         IN  [ tabs |-> rest,
               active |-> IF active >= Len(rest) THEN Len(rest) - 1
                          ELSE IF active > index THEN active - 1
                          ELSE active,
               ret |-> TRUE ]
    ELSE [ tabs |-> ts, active |-> active, ret |-> FALSE ]

\* close_tab without the shift of the active index
close_tab_no_shift(ts, active, index) ==
    IF Len(ts) > 1 /\ index < Len(ts)
    THEN LET rest == remove_at(ts, index)
         IN  [ tabs |-> rest,
               active |-> IF active >= Len(rest) THEN Len(rest) - 1
                          ELSE active,
               ret |-> TRUE ]
    ELSE [ tabs |-> ts, active |-> active, ret |-> FALSE ]

\* BrowserUIState::close_tab
close_tab(ts, active, index) ==
    IF Len(ts) > 1 /\ index < Len(ts)
    THEN LET rest == remove_at(ts, index)
         IN  [ tabs |-> rest,
               active |-> IF active >= Len(rest) THEN Len(rest) - 1
                          ELSE IF active > index THEN active - 1
                          ELSE active,
               ret |-> TRUE ]
    ELSE [ tabs |-> ts, active |-> active, ret |-> FALSE ]

\* BrowserUIState::get_active_tab: tabs.get(index).cloned()
get_active_tab(ts, active) ==
    IF active < Len(ts) THEN Some(ts[active + 1]) ELSE None

\* create_tab pushes a tab with a fresh id and makes it active
CreateTab(url) ==
    /\ Len(tabs) < MaxTabs
    /\ \E id \in TabIds \ { tabs[i].id : i \in 1..Len(tabs) } :
          /\ tabs' = Append(tabs, [id |-> id, url |-> url])
          /\ ui_ret' = << "Id", id >>
    /\ active_tab_index' = Len(tabs') - 1
    /\ ui_op' = "create_tab"
    /\ ui_arg' = Some(url)
    /\ UNCHANGED << cache, config, now, call_vars, shared_vars, tabs_vars,
                    wv_vars, uihistory_vars, url_input >>

CloseTab(index) ==
    /\ \E r \in { close_tab(tabs, active_tab_index, index) } :
          /\ tabs' = r.tabs
          /\ active_tab_index' = r.active
          /\ ui_ret' = << "Bool", r.ret >>
    /\ ui_op' = "close_tab"
    /\ ui_arg' = Some(index)
    /\ UNCHANGED << cache, config, now, call_vars, shared_vars, tabs_vars,
                    wv_vars, uihistory_vars, url_input >>

SwitchToTab(index) ==
    /\ IF index < Len(tabs)
       THEN /\ active_tab_index' = index
            /\ url_input' = tabs[index + 1].url
       ELSE UNCHANGED << active_tab_index, url_input >>
    /\ ui_op' = "switch_to_tab"
    /\ ui_arg' = Some(index)
    /\ ui_ret' = << "Unit" >>
    /\ UNCHANGED << cache, config, now, call_vars, shared_vars, tabs_vars,
                    wv_vars, uihistory_vars, tabs >>

\* update_tab with a url; an index past the end changes nothing
UpdateTab(index, url) ==
    /\ IF index < Len(tabs)
       THEN tabs' = [tabs EXCEPT ![index + 1].url = url]
       ELSE UNCHANGED tabs
    /\ ui_op' = "update_tab"
    /\ ui_arg' = Some(index)
    /\ ui_ret' = << "Unit" >>
    /\ UNCHANGED << cache, config, now, call_vars, shared_vars, tabs_vars,
                    wv_vars, uihistory_vars, active_tab_index, url_input >>

NextTabList ==
    \/ \E url \in TabUrls : CreateTab(url)
    \/ \E index \in TabIndices : CloseTab(index)
    \/ \E index \in TabIndices : SwitchToTab(index)
    \/ \E index \in TabIndices, url \in TabUrls : UpdateTab(index, url)

SpecTabList == InitShared /\ [][NextTabList]_vars

\* ---------------------------------------------- BrowserUIState: the history
\* URLs are numbered in the order of their first visit; an entry is its url
\* and its visit_count (a u32).

\* history.len() > 1000
HistoryLimit == 1000

\* history.drain(0..100)
HistoryDrain == 100

\* navigation_history.len() > 100
NavigationLimit == 100

\* most distinct URLs visited
MaxUrl == 1003

\* most visits of one URL (visit_count, a u32, stays far below u32::MAX)
MaxVisits == 2

\* the URLs of the entries of h
history_urls(h) == { h[i].url : i \in 1..Len(h) }

\* add_to_history dropping the oldest entries one push too late
ui_add_to_history_late_drain(h, nav, url) ==
    LET found == { i \in 1..Len(h) : h[i].url = url }
        h1    == Append(h, [url |-> url, visit_count |-> 1])
        nav1  == Append(nav, url)
    IN  [ history |->
            IF found # {}
            THEN LET i == CHOOSE k \in found : \A j \in found : k <= j
                 IN  [h EXCEPT ![i].visit_count = @ + 1]
            ELSE IF Len(h1) > HistoryLimit + 1
            THEN SubSeq(h1, HistoryDrain + 1, Len(h1))
            ELSE h1,
          navigation_history |->
            IF Len(nav1) > NavigationLimit THEN Tail(nav1) ELSE nav1 ]

\* BrowserUIState::add_to_history
ui_add_to_history(h, nav, url) ==
    LET found == { i \in 1..Len(h) : h[i].url = url }
        h1    == Append(h, [url |-> url, visit_count |-> 1])
        nav1  == Append(nav, url)
    IN  [ history |->
            IF found # {}
            THEN LET i == CHOOSE k \in found : \A j \in found : k <= j
                 IN  [h EXCEPT ![i].visit_count = @ + 1]
            ELSE IF Len(h1) > HistoryLimit
            THEN SubSeq(h1, HistoryDrain + 1, Len(h1))
            ELSE h1,
          navigation_history |->
            IF Len(nav1) > NavigationLimit THEN Tail(nav1) ELSE nav1 ]

\* the largest URL of h: entries are pushed in the order of the URLs, and
\* only the first URL is ever pushed again, so it is one of the last two
newest_url(h) ==
    IF Len(h) = 0 THEN 0
    ELSE IF Len(h) = 1 \/ h[Len(h)].url > h[Len(h) - 1].url THEN h[Len(h)].url
    ELSE h[Len(h) - 1].url

\* the history is at one of its edges: nearly empty, just drained, or full
\* and nearly full
at_edge(h) ==
    \/ Len(h) \in 1..2
    \/ Len(h) \in (HistoryLimit - HistoryDrain + 1)..(HistoryLimit - HistoryDrain + 2)
    \/ Len(h) \in (HistoryLimit - 2)..HistoryLimit

\* the URLs the next call is made with: the next new URL at any time; at the
\* edges also the URL of the oldest entry and the first URL ever visited
VisitUrls ==
    LET next == newest_url(ui_history) + 1
    IN  { u \in {next} : u <= MaxUrl }
        \cup { u \in (IF at_edge(ui_history)
                       THEN {ui_history[1].url, 1} ELSE {}) :
                 \A i \in 1..Len(ui_history) :
                     ui_history[i].url = u
                     => ui_history[i].visit_count < MaxVisits }

AddToHistory(url) ==
    /\ \E r \in { ui_add_to_history(ui_history, navigation_history, url) } :
          /\ ui_history' = r.history
          /\ navigation_history' = r.navigation_history
    /\ ui_op' = "add_to_history"
    /\ ui_arg' = Some(url)
    /\ ui_ret' = << "Unit" >>
    /\ UNCHANGED << cache, config, now, call_vars, shared_vars, tabs_vars,
                    wv_vars, tablist_vars >>

NextUiHistory == \E url \in VisitUrls : AddToHistory(url)

SpecUiHistory == InitShared /\ [][NextUiHistory]_vars

\* ------------------------------------------------------------- properties
\* The validity rule of the data model: a record is valid at time t while
\* t <= created_at + ttl_seconds, over the integers.
ValidAt(result, t) == t <= result.timestamp + result.ttl

\* the cache holds an entry for d that is valid now
HasValidEntry(d) == d \in DOMAIN cache /\ ValidAt(cache[d], now)

\* the cache holds an entry for d that is no longer valid now
HasExpiredEntry(d) == d \in DOMAIN cache /\ ~ ValidAt(cache[d], now)

\* C1: a resolve(d) that finds an entry for d with now <= created_at + ttl
\* returns exactly that entry, sends no request to the name service or the
\* conventional resolver, and leaves the cache unchanged.
C1_CacheHitWithinTtl ==
    [][\A d \in Domains :
          (HasValidEntry(d) /\ Resolve(d))
              => /\ ret' = Ok(cache[d])
                 /\ genesis_requests' = 0
                 /\ dns_lookups' = 0
                 /\ cache' = cache]_vars

\* C2: a resolve that returns an error leaves the cache as it was, also when
\* an expired entry for the domain was present.
C2_FailuresKeepCache ==
    [][(op' = "resolve" /\ IsErr(ret')) => cache' = cache]_vars

\* C2 witness: a resolve found an expired entry, failed, and the entry is
\* still cached.
C2_Witness ==
    /\ op = "resolve"
    /\ IsErr(ret)
    /\ path = "expired"
    /\ Unwrap(arg) \in DOMAIN cache

\* C3: a resolve of a domain with a recognized suffix never invokes the
\* conventional-DNS strategy and makes no conventional lookup, whatever the
\* fallback flag and the outcome of the name-service request.
C3_GenesisNeverConventional ==
    (op = "resolve" /\ is_genesis_domain(Unwrap(arg)))
        => (strategy # "traditional" /\ dns_lookups = 0)

\* C3 witness: with fallback enabled and compiled in, the name-service request
\* for a recognized domain failed.
C3_Witness ==
    /\ op = "resolve"
    /\ is_genesis_domain(Unwrap(arg))
    /\ fallback_enabled
    /\ traditional_fallback
    /\ strategy = "genesis"
    /\ IsErr(ret)

\* C4: with fallback disabled, a resolve of a domain with no recognized
\* suffix and no valid cache entry returns UnsupportedDomain, performs no
\* network activity and leaves the cache unchanged.
C4_UnsupportedWithoutFallback ==
    [][\A d \in Domains :
          (~ fallback_enabled /\ ~ is_genesis_domain(d) /\ ~ HasValidEntry(d)
                              /\ Resolve(d))
              => /\ ret' = Err("UnsupportedDomain", d)
                 /\ genesis_requests' = 0
                 /\ dns_lookups' = 0
                 /\ cache' = cache]_vars

\* C4 witness: such a resolve returned UnsupportedDomain in a build that has
\* the conventional resolver compiled in.
C4_Witness ==
    /\ op = "resolve"
    /\ arg = Some(ExampleCom)
    /\ ~ fallback_enabled
    /\ traditional_fallback
    /\ ret = Err("UnsupportedDomain", ExampleCom)

\* C5: a resolve(d) that finds an entry with now > created_at + ttl does not
\* return that entry: it selects a strategy and resolves afresh, and on
\* success the returned record is the fresh one and replaces the entry.
C5_ExpiredIsMiss ==
    [][\A d \in Domains :
          (HasExpiredEntry(d) /\ Resolve(d))
              => /\ ret' # Ok(cache[d])
                 /\ strategy' = select_strategy(d)
                 /\ genesis_requests' + dns_lookups' = 1
                 /\ (IsOk(ret') => /\ ret'[2].timestamp = now'
                                   /\ d \in DOMAIN cache'
                                   /\ cache'[d] = ret'[2])]_vars

\* C5 witness: a resolve found an expired entry and resolved successfully.
C5_Witness ==
    /\ op = "resolve"
    /\ path = "expired"
    /\ IsOk(ret)
    /\ cache[Unwrap(arg)] = ret[2]

\* C6: cleanup_cache leaves exactly the prior entries with
\* now <= created_at + ttl, each unchanged, and adds none.
C6_CleanupKeepsExactlyValid ==
    [][CleanupCache
          => cache' = [k \in {x \in DOMAIN cache : ValidAt(cache[x], now)}
                          |-> cache[k]]]_vars

\* C7: every cached record that is valid by the rule now <= created_at + ttl
\* is treated as valid by resolve and kept by cleanup_cache: the sum
\* timestamp + ttl the code computes neither overflows nor wraps.
C7_ValidityOverWholeRange ==
    \A d \in DOMAIN cache :
        /\ ~ AddOverflows(cache[d].timestamp, cache[d].ttl)
        /\ ValidAt(cache[d], now)
              => (~ is_cache_expired(cache[d], now) /\ cleanup_keeps(cache[d], now))

\* C8: the record a successful resolve returns carries the queried domain.
C8_RecordDomainIsQuery ==
    (op = "resolve" /\ IsOk(ret)) => ret[2].domain = Unwrap(arg)

\* C9: no record returned by resolve or held in the cache has both an
\* address and a content reference.
C9_AddressXorContent ==
    /\ \A d \in DOMAIN cache :
          ~ (IsSome(cache[d].ip_address) /\ IsSome(cache[d].content_hash))
    /\ (op = "resolve" /\ IsOk(ret))
          => ~ (IsSome(ret[2].ip_address) /\ IsSome(ret[2].content_hash))

\* C10: a valid name-service body maps to a record with the parsed address
\* and strategy Genesis when its ip_address string parses, and otherwise to a
\* record with no address, the body's content_hash and strategy IPFS.
C10_GenesisMapping ==
    (op = "resolve" /\ strategy = "genesis" /\ reply.kind = "body")
        => LET body   == reply.body
               parsed == IF IsSome(body.ip_address)
                         THEN parse_ip(Unwrap(body.ip_address)) ELSE None
           IN  /\ IsOk(ret)
               /\ IF IsSome(parsed)
                  THEN /\ ret[2].ip_address = parsed
                       /\ ret[2].resolver_type = "Genesis"
                  ELSE /\ ret[2].ip_address = None
                       /\ ret[2].content_hash = body.content_hash
                       /\ ret[2].resolver_type = "IPFS"
               /\ (body.ip_address = Some(IpString100)
                      => /\ ret[2].ip_address = Some(<< 192, 168, 1, 100 >>)
                         /\ ret[2].resolver_type = "Genesis")
               /\ (body.ip_address = None /\ body.content_hash = Some("Qm123")
                      => /\ ret[2].content_hash = Some("Qm123")
                         /\ ret[2].resolver_type = "IPFS")

\* C10 witness: a body whose address string does not parse and that carries
\* a content hash was mapped.
C10_Witness ==
    /\ op = "resolve"
    /\ strategy = "genesis"
    /\ reply.kind = "body"
    /\ reply.body.ip_address = Some(IpString999)
    /\ reply.body.content_hash = Some("Qm123")
    /\ IsOk(ret)
    /\ ret[2].resolver_type = "IPFS"

\* C11: a valid name-service body with neither a parsable address nor a
\* content hash is not an error: resolve returns Ok with a record tagged IPFS
\* whose address and content reference are both absent, and caches it.
C11_EmptyRecordIsOk ==
    (/\ op = "resolve"
     /\ strategy = "genesis"
     /\ reply.kind = "body"
     /\ reply.body.content_hash = None
     /\ (reply.body.ip_address = None
           \/ parse_ip(Unwrap(reply.body.ip_address)) = None))
        => /\ IsOk(ret)
           /\ ret[2].resolver_type = "IPFS"
           /\ ret[2].ip_address = None
           /\ ret[2].content_hash = None
           /\ Unwrap(arg) \in DOMAIN cache
           /\ cache[Unwrap(arg)] = ret[2]

\* C11 witness: such a body, with an address string that does not parse, was
\* resolved and cached.
C11_Witness ==
    /\ op = "resolve"
    /\ strategy = "genesis"
    /\ reply.kind = "body"
    /\ reply.body.content_hash = None
    /\ reply.body.ip_address = Some(IpString999)
    /\ IsOk(ret)
    /\ cache[Unwrap(arg)].resolver_type = "IPFS"

\* a step of resolve(d) that went to the named strategy
ResolveVia(d, strat) ==
    /\ strategy' = strat
    /\ arg' = Some(d)
    /\ Resolve(d)

\* C12: the record of a valid name-service body has the ttl of the body, or
\* 3600 when the body has none, and as created_at the resolver's clock when
\* the body is mapped.
C12_GenesisTtlAndTimestamp ==
    [][\A d \in Domains :
          (ResolveVia(d, "genesis") /\ reply'.kind = "body")
              => /\ IsOk(ret')
                 /\ (reply'.body.ttl = None => ret'[2].ttl = 3600)
                 /\ (reply'.body.ttl # None => ret'[2].ttl = reply'.body.ttl[1])
                 /\ ret'[2].timestamp = now']_vars

\* C12 witness: a body without ttl was mapped after the clock had moved during
\* the round trip of an earlier call.
C12_Witness ==
    /\ op = "resolve"
    /\ strategy = "genesis"
    /\ reply.kind = "body"
    /\ reply.body.ttl = None
    /\ IsOk(ret)
    /\ ret[2].ttl = 3600
    /\ ret[2].timestamp = 300

\* C13: each name-service request ends in exactly one of four ways: transport
\* failure gives ConnectionError, a non-success status NodeError, an
\* unparsable body InvalidResponse, and only a valid body gives Ok.
C13_GenesisOutcomeClassification ==
    (op = "resolve" /\ strategy = "genesis")
        => /\ genesis_requests = 1
           /\ reply.kind \in {"send_err", "status_err", "json_err", "body"}
           /\ (reply.kind = "send_err" <=> (IsErr(ret) /\ ret[2] = "ConnectionError"))
           /\ (reply.kind = "status_err" <=> (IsErr(ret) /\ ret[2] = "NodeError"))
           /\ (reply.kind = "json_err" <=> (IsErr(ret) /\ ret[2] = "InvalidResponse"))
           /\ (reply.kind = "body" <=> IsOk(ret))
           /\ (IsErr(ret) => ret[3] = reply.text)

\* C13 witness: the name service answered with a non-success status.
C13_Witness ==
    /\ op = "resolve"
    /\ strategy = "genesis"
    /\ reply.kind = "status_err"
    /\ ret = Err("NodeError", CauseText)

\* C14: for a domain without recognized suffix and fallback enabled, an empty
\* answer gives NoResults, a failed lookup ResolutionFailed, and a build
\* without the conventional resolver always UnsupportedDomain; none of the
\* three changes the cache.
C14_ConventionalFailures ==
    [][\A d \in Domains :
          ResolveVia(d, "traditional")
              => /\ ~ is_genesis_domain(d) /\ fallback_enabled
                 /\ (~ traditional_fallback
                        => /\ ret' = Err("UnsupportedDomain", d)
                           /\ dns_lookups' = 0
                           /\ cache' = cache)
                 /\ (traditional_fallback /\ reply'.kind = "err"
                        => /\ ret' = Err("ResolutionFailed", reply'.text)
                           /\ cache' = cache)
                 /\ (traditional_fallback /\ reply'.kind = "ok" /\ reply'.ips = << >>
                        => /\ ret' = Err("NoResults", d)
                           /\ cache' = cache)]_vars

\* C14 witness: the conventional resolver returned no address.
C14_Witness ==
    /\ op = "resolve"
    /\ strategy = "traditional"
    /\ traditional_fallback
    /\ reply.kind = "ok"
    /\ reply.ips = << >>
    /\ ret = Err("NoResults", ExampleCom)
    /\ ExampleCom \notin DOMAIN cache

\* C15: a conventional lookup that returns addresses gives a record with the
\* first address, no content reference, tag Traditional, ttl 300 and the
\* current time, cached under the queried domain.
C15_ConventionalSuccess ==
    [][\A d \in Domains :
          (ResolveVia(d, "traditional") /\ traditional_fallback
              /\ reply'.kind = "ok" /\ reply'.ips # << >>)
              => /\ ret' = Ok([ domain        |-> d,
                                ip_address    |-> Some(Head(reply'.ips)),
                                content_hash  |-> None,
                                resolver_type |-> "Traditional",
                                ttl           |-> 300,
                                timestamp     |-> now' ])
                 /\ d \in DOMAIN cache'
                 /\ cache'[d] = ret'[2]]_vars

\* C15 witness: the lookup returned two addresses and the record has the
\* first.
C15_Witness ==
    /\ op = "resolve"
    /\ strategy = "traditional"
    /\ IsOk(ret)
    /\ reply.ips = << Ip7, Ip100 >>
    /\ ret[2].ip_address = Some(Ip7)
    /\ cache[ExampleCom] = ret[2]

\* C16: a successful resolution of d stores the new record, whole, under the
\* exact string d and changes the entry of no other domain.
C16_InsertFrame ==
    [][\A d \in Domains :
          (op' = "resolve" /\ arg' = Some(d) /\ IsOk(ret') /\ path' # "hit"
              /\ Resolve(d))
              => /\ DOMAIN cache' = (DOMAIN cache) \cup {d}
                 /\ cache'[d] = ret'[2]
                 /\ \A k \in (DOMAIN cache) \ {d} : cache'[k] = cache[k]]_vars

\* C16 witness: an expired entry was replaced by a different record while
\* another domain had an entry.
C16_Witness ==
    /\ op = "resolve"
    /\ path = "expired"
    /\ IsOk(ret)
    /\ DOMAIN cache = {TestGenesis, ExampleCom}
    /\ cache[Unwrap(arg)] = ret[2]

\* C17: cache_stats reports the number of entries, expired ones included,
\* the number tagged Genesis and the number tagged Traditional; the two
\* counts together leave out exactly the IPFS and Hybrid entries; the call
\* changes neither the cache nor anything else of the resolver.
C17_CacheStats ==
    [][CacheStats
          => LET stats == ret'[2]
                 Tagged(tags) == { k \in DOMAIN cache : cache[k].resolver_type \in tags }
             IN  /\ stats.total_entries = Cardinality(DOMAIN cache)
                 /\ stats.genesis_domains = Cardinality(Tagged({"Genesis"}))
                 /\ stats.traditional_domains = Cardinality(Tagged({"Traditional"}))
                 /\ stats.genesis_domains + stats.traditional_domains
                        <= stats.total_entries
                 /\ stats.total_entries - stats.genesis_domains
                        - stats.traditional_domains
                        = Cardinality(Tagged({"IPFS", "Hybrid"}))
                 /\ cache' = cache
                 /\ now' = now
                 /\ config' = config]_vars

\* C17 witness: with one Genesis and one Traditional entry, one of them
\* expired, cache_stats reported total 2, genesis 1, traditional 1.
C17_Witness ==
    /\ op = "stats"
    /\ ret[2] = [ total_entries |-> 2, genesis_domains |-> 1,
                  traditional_domains |-> 1 ]
    /\ \E k \in DOMAIN cache : ~ ValidAt(cache[k], now)

\* C18: is_genesis_domain(d) is true exactly when d ends, character for
\* character, with one of .genesis .free .web .defi .dao; no case folding or
\* other normalization is applied.
C18_LiteralSuffixTest ==
    op = "is_genesis_domain"
        => LET d == Unwrap(arg)
               labels == { << ".", "g", "e", "n", "e", "s", "i", "s" >>,
                           << ".", "f", "r", "e", "e" >>,
                           << ".", "w", "e", "b" >>,
                           << ".", "d", "e", "f", "i" >>,
                           << ".", "d", "a", "o" >> }
               EndsIn(l) == \E n \in 0..Len(d) :
                               /\ n + Len(l) = Len(d)
                               /\ \A i \in 1..Len(l) : d[n + i] = l[i]
           IN  /\ ret[2] = (\E l \in labels : EndsIn(l))
               /\ (d \in { ProbeTestGenesis, ProbeFreedomFree, ProbeMysiteWeb,
                           ProbeTokenDefi } => ret[2] = TRUE)
               /\ (d \in { ProbeGoogleCom, ProbeExampleOrg, ProbeUpperGenesis }
                      => ret[2] = FALSE)

\* C18 witness: "TEST.GENESIS" was classified as not a Genesis domain.
C18_Witness ==
    /\ op = "is_genesis_domain"
    /\ arg = Some(ProbeUpperGenesis)
    /\ ret = << "Bool", FALSE >>

\* C19: a call issues at most one outbound request, and nothing but a call of
\* resolve issues any: the clock moving on adds no request to the last call,
\* cleanup_cache and cache_stats send none.
C19_NoRetry ==
    [][/\ genesis_requests' + dns_lookups' <= 1
       /\ (Tick => UNCHANGED << genesis_requests, dns_lookups, ret >>)
       /\ (CleanupCache \/ CacheStats
              => genesis_requests' = 0 /\ dns_lookups' = 0)]_vars

\* C19 witness: a resolve failed after its one request to the name service.
C19_Witness ==
    /\ op = "resolve"
    /\ IsErr(ret)
    /\ genesis_requests = 1
    /\ dns_lookups = 0

\* C20: the network I/O of resolve runs without the resolver's lock: no
\* caller holds the lock while its request to the name service is in flight.
C20_NetworkIoWithoutLock ==
    \A c \in Callers : pc[c] = "waiting" => lock # c

\* C21: two callers resolving the same uncached Genesis host concurrently on
\* one shared resolver both perform the round trip to the name service: a
\* caller whose resolve raced another one's never returns without having
\* sent its own request.
C21_BothRoundTrips ==
    \A c \in Callers :
        raced[c] /\ pc[c] = "resolved" => sent[c] = 1

\* C22: the cache is shared by all tabs: a navigation to a Genesis host for
\* which another webview of the browser holds a record within its ttl sends
\* no request to the name service.
C22_TabsShareCache ==
    [][\A w \in WebViewIds, d \in SharedDomains :
          ( /\ w \in DOMAIN webviews
            /\ \E o \in DOMAIN webviews \ {w} :
                  d \in DOMAIN webviews[o] /\ ValidAt(webviews[o][d], now)
            /\ TabNavigate(w, d) )
          => tab_sent'[w] = 0]_vars

\* C23: expired entries are eventually evicted: an entry whose validity has
\* lapsed is eventually removed or replaced by a valid one.
C23_ExpiredEventuallyEvicted ==
    \A d \in Domains : HasExpiredEntry(d) ~> ~ HasExpiredEntry(d)

\* C24: the history index stays in bounds: it is below history.len() on a
\* non-empty history, can_go_forward is false on an empty history, and no
\* call underflows history.len() - 1 or indexes history out of range.
C24_HistoryIndexInBounds ==
    /\ history # << >> => history_index < Len(history)
    /\ history = << >> /\ ~ overflow_checks => ~ can_go_forward(webview)
    /\ wv_ret # "Panic"

\* C25: go_back from the end of a history [.., a, b] makes a current, leaves
\* the history entries as they are and leaves can_go_forward true.
C25_BackKeepsHistory ==
    [][( /\ Len(history) >= 2
         /\ history_index = Len(history) - 1
         /\ current_url = Some(history[Len(history)])
         /\ GoBack
         /\ wv_ret' = "Ok" )
       => /\ current_url' = Some(history[Len(history) - 1])
          /\ history' = history
          /\ history_index' < Len(history') - 1]_vars

\* C26: navigate always completes: no call on the webview stays blocked in a
\* send into the event channel, and none leaves the write guard held.
C26_NavigateCompletes ==
    wv_ret # "Blocked" /\ ~ guard_held

\* C27: a navigation whose Genesis resolution failed emits LoadError and
\* nothing else, and changes neither current_url nor history.
C27_FailedResolutionStops ==
    [][\A input \in WebInputs :
          ( /\ Navigation(input)
            /\ wv_ret' # "Panic"
            /\ \E i \in 1..Len(emitted') : emitted'[i] = "LoadError" )
          => /\ emitted' = << "LoadError" >>
             /\ current_url' = current_url
             /\ history' = history]_vars

\* C28: the tab list is never empty, the active index is inside it and
\* get_active_tab returns a tab; close_tab on the only tab or with an index
\* past the end returns false and changes nothing.
C28_TabListInvariant ==
    /\ [](/\ Len(tabs) >= 1
          /\ active_tab_index < Len(tabs)
          /\ IsSome(get_active_tab(tabs, active_tab_index)))
    /\ [][\A index \in TabIndices :
             CloseTab(index) /\ (Len(tabs) = 1 \/ index >= Len(tabs))
             => /\ ui_ret' = << "Bool", FALSE >>
                /\ UNCHANGED tablist_vars]_vars

\* close_tab has refused to close the only tab
C28_Witness ==
    /\ ui_op = "close_tab"
    /\ ui_arg = Some(0)
    /\ ui_ret = << "Bool", FALSE >>
    /\ Len(tabs) = 1

\* C29: close_tab(i) on a list of two or more tabs with a valid i other than
\* the active index leaves the same tab active; with i the active index the
\* tab that followed becomes active, or the new last tab if it was last.
C29_CloseKeepsActiveTab ==
    [][\A index \in TabIndices :
          ( /\ Len(tabs) >= 2
            /\ index < Len(tabs)
            /\ CloseTab(index) )
          => get_active_tab(tabs', active_tab_index') =
                IF index # active_tab_index
                THEN get_active_tab(tabs, active_tab_index)
                ELSE IF index + 1 < Len(tabs)
                THEN Some(tabs[index + 2])
                ELSE Some(tabs'[Len(tabs')])]_vars

\* a tab before the active one has been closed and the active index moved
C29_Witness ==
    /\ ui_op = "close_tab"
    /\ ui_ret = << "Bool", TRUE >>
    /\ ui_arg = Some(0)
    /\ active_tab_index = 1
    /\ Len(tabs) = 2

\* C30: history holds each URL at most once and at most 1000 entries, and
\* navigation_history at most 100 URLs; a revisit raises visit_count and adds
\* no entry, the 1001st entry drops the 100 oldest, and the 101st URL of
\* navigation_history drops the oldest.
C30_HistoryBounds ==
    /\ [](/\ Cardinality(history_urls(ui_history)) = Len(ui_history)
          /\ Len(ui_history) <= HistoryLimit
          /\ Len(navigation_history) <= NavigationLimit)
    /\ [][\A url \in VisitUrls :
             AddToHistory(url)
             => /\ url \in history_urls(ui_history)
                   => /\ Len(ui_history') = Len(ui_history)
                      /\ \A i \in 1..Len(ui_history) :
                            /\ ui_history'[i].url = ui_history[i].url
                            /\ ui_history'[i].visit_count =
                                 ui_history[i].visit_count
                                 + (IF ui_history[i].url = url THEN 1 ELSE 0)
                /\ url \notin history_urls(ui_history)
                     /\ Len(ui_history) = HistoryLimit
                   => ui_history' =
                        SubSeq(ui_history, HistoryDrain + 1, HistoryLimit)
                        \o << [url |-> url, visit_count |-> 1] >>
                /\ Len(navigation_history) = NavigationLimit
                   => navigation_history' =
                        Append(Tail(navigation_history), url)]_vars

\* the history has been drained, navigation_history is full and the oldest
\* entry left has been visited again
C30_Witness ==
    /\ Len(ui_history) = HistoryLimit - HistoryDrain + 1
    /\ Len(navigation_history) = NavigationLimit
    /\ ui_history[1].visit_count = 2

====
